---- MODULE Spec2Model ----
(***************************************************************************)
(* Model of the Nexus pipeline (ex2/nexus_pipeline.py): the three stages,  *)
(* the three adapters, and the NexusManager with its routing, recovery,    *)
(* counters and chaining demo.                                             *)
(*                                                                         *)
(* Python values are tagged records:                                       *)
(*   [t |-> "none"]                None                                    *)
(*   [t |-> "int",  v |-> n]       an int                                  *)
(*   [t |-> "nan"]                 float('nan')                            *)
(*   [t |-> "str",  s |-> chars]   a str, as the sequence of its characters*)
(*   [t |-> "dict", d |-> f]       a dict, as a function on its keys       *)
(* A character is a one-character string; the degree sign is written       *)
(* "deg".                                                                  *)
(***************************************************************************)
EXTENDS Integers, Sequences, FiniteSets, TLC

VARIABLES pipelines, stats, is_demo, calls, op, raised

vars == <<pipelines, stats, is_demo, calls, op, raised>>

(***************************************************************************)
(* Bounds of the model.                                                    *)
(***************************************************************************)
MaxPipelines == 2
MaxCount == 1

(***************************************************************************)
(* String literals of the program.                                         *)
(***************************************************************************)
JSONPrefix ==
    << "P", "r", "o", "c", "e", "s", "s", "e", "d", " ", "t", "e",
       "m", "p", "e", "r", "a", "t", "u", "r", "e", " ", "r", "e",
       "a", "d", "i", "n", "g", ":", " " >>

CSVPrefix ==
    << "U", "s", "e", "r", " ", "a", "c", "t", "i", "v", "i", "t",
       "y", " ", "l", "o", "g", "g", "e", "d", ":", " " >>

StreamPrefix ==
    << "S", "t", "r", "e", "a", "m", " ", "s", "u", "m", "m", "a",
       "r", "y", ":", " " >>

ActionsProcessed ==
    << " ", "a", "c", "t", "i", "o", "n", "s", " ", "p", "r", "o",
       "c", "e", "s", "s", "e", "d" >>

StreamReadings ==
    << "5", " ", "r", "e", "a", "d", "i", "n", "g", "s", ",", " ",
       "a", "v", "g", ":", " ", "2", "2", ".", "1", "deg", "C" >>

NormalRange ==
    << "N", "o", "r", "m", "a", "l", " ", "r", "a", "n", "g", "e" >>

NegativeRange ==
    << "N", "e", "g", "a", "t", "i", "v", "e", " ", "r", "a", "n",
       "g", "e" >>

CaniculeRange ==
    << "C", "a", "n", "i", "c", "u", "l", "e", " ", "r", "a", "n",
       "g", "e" >>

RecoverySuccessful ==
    << "R", "e", "c", "o", "v", "e", "r", "y", " ", "s", "u", "c",
       "c", "e", "s", "s", "f", "u", "l" >>

ChainLogPrefix ==
    << "c", "h", "a", "i", "n", "_", "l", "o", "g", ",", "s", "t",
       "a", "t", "u", "s", "," >>

FinalStreamPrefix ==
    << "F", "i", "n", "a", "l", " ", "s", "t", "r", "e", "a", "m",
       " ", "u", "p", "d", "a", "t", "e", ":", " " >>

NoneText ==
    << "N", "o", "n", "e" >>

NanText ==
    << "n", "a", "n" >>

StreamWord ==
    << "s", "t", "r", "e", "a", "m" >>

DegreeC ==
    << "deg", "C" >>

(***************************************************************************)
(* Python values.                                                          *)
(***************************************************************************)
PyNone == [t |-> "none"]

PyInt(n) == [t |-> "int", v |-> n]

PyNan == [t |-> "nan"]

PyStr(chars) == [t |-> "str", s |-> chars]

PyDict(f) == [t |-> "dict", d |-> f]

IsStr(x) == x.t = "str"

IsDict(x) == x.t = "dict"

(***************************************************************************)
(* str methods used by the program.                                        *)
(***************************************************************************)
UpperChars ==
    << "A", "B", "C", "D", "E", "F", "G", "H", "I", "J", "K", "L", "M",
       "N", "O", "P", "Q", "R", "S", "T", "U", "V", "W", "X", "Y", "Z" >>

LowerChars ==
    << "a", "b", "c", "d", "e", "f", "g", "h", "i", "j", "k", "l", "m",
       "n", "o", "p", "q", "r", "s", "t", "u", "v", "w", "x", "y", "z" >>

\* str.lower(), character by character
LowerOf ==
    [c \in {UpperChars[i] : i \in 1..26} |->
        LowerChars[CHOOSE i \in 1..26 : UpperChars[i] = c]]

LowerChar(c) == IF c \in DOMAIN LowerOf THEN LowerOf[c] ELSE c

Lower(s) == [i \in 1..Len(s) |-> LowerChar(s[i])]

\* str.count(c) for a single character c
Count(s, c) == Cardinality({i \in 1..Len(s) : s[i] = c})

\* sub in s
Contains(s, sub) ==
    \E i \in 1..(Len(s) - Len(sub) + 1) :
        \A k \in 1..Len(sub) : s[i + k - 1] = sub[k]

\* the whitespace characters str.strip() removes (those of the model's alphabet)
Whitespace == {" ", "\n", "\r", "\t"}

\* the number of whitespace characters s begins with, and ends with
LeadingWhitespace(s) ==
    Cardinality({i \in 1..Len(s) : \A j \in 1..i : s[j] \in Whitespace})

TrailingWhitespace(s) ==
    Cardinality({i \in 1..Len(s) : \A j \in i..Len(s) : s[j] \in Whitespace})

\* str.strip()
Strip(s) ==
    IF LeadingWhitespace(s) = Len(s) THEN <<>>
    ELSE SubSeq(s, LeadingWhitespace(s) + 1, Len(s) - TrailingWhitespace(s))

\* the line boundaries str.splitlines() breaks at (those of the model's alphabet)
LineBreaks == {"\n", "\r"}

\* the position of the first line boundary of s, 0 when it has none
FirstBreak(s) ==
    LET brk == {i \in 1..Len(s) : s[i] \in LineBreaks}
    IN  IF brk = {} THEN 0 ELSE CHOOSE k \in brk : \A j \in brk : k <= j

\* the lines of s when its first line boundary is at i: "\r\n" is one
\* boundary, and a boundary at the very end of the text does not open a
\* further (empty) line
RECURSIVE SplitAt(_, _)
SplitAt(s, i) ==
    IF s = <<>> THEN <<>>
    ELSE IF i = 0 THEN << s >>
    ELSE IF s[i] = "\r" /\ i < Len(s) /\ s[i + 1] = "\n"
    THEN << SubSeq(s, 1, i - 1) >>
           \o SplitAt(SubSeq(s, i + 2, Len(s)),
                      FirstBreak(SubSeq(s, i + 2, Len(s))))
    ELSE << SubSeq(s, 1, i - 1) >>
           \o SplitAt(SubSeq(s, i + 1, Len(s)),
                      FirstBreak(SubSeq(s, i + 1, Len(s))))

\* str.splitlines()
SplitLines(s) == SplitAt(s, FirstBreak(s))

DigitChars == << "0", "1", "2", "3", "4", "5", "6", "7", "8", "9" >>

\* str(n) for a natural number n
RECURSIVE NatToStr(_)
NatToStr(n) ==
    IF n < 10 THEN << DigitChars[n + 1] >>
    ELSE NatToStr(n \div 10) \o << DigitChars[(n % 10) + 1] >>

\* str(n) for an int n
IntToStr(n) == IF n < 0 THEN << "-" >> \o NatToStr(0 - n) ELSE NatToStr(n)

\* str(x), the text an f-string substitutes for {x}
Format(x) ==
    CASE x.t = "none" -> NoneText
      [] x.t = "int"  -> IntToStr(x.v)
      [] x.t = "nan"  -> NanText
      [] x.t = "str"  -> x.s

(***************************************************************************)
(* Outcome of a call that may raise.                                       *)
(***************************************************************************)
Ok(x) == [ok |-> TRUE, v |-> x]

Raise(e) == [ok |-> FALSE, e |-> e]

\* dict.get(key), with None for a missing key
Get(f, key) == IF key \in DOMAIN f THEN f[key] ELSE PyNone

(***************************************************************************)
(* InputStage.process                                                      *)
(***************************************************************************)
\* InputStage_process with the stripped text returned for a text
InputStage_process_Trimmed(data) ==
    IF data.t = "none" THEN Raise("ValueError")
    ELSE IF IsStr(data) /\ Strip(data.s) = <<>> THEN Raise("ValueError")
    ELSE IF IsDict(data) /\ DOMAIN data.d = {} THEN Raise("ValueError")
    ELSE IF IsStr(data) THEN Ok(PyStr(Strip(data.s)))
    ELSE Ok(data)

InputStage_process(data) ==
    IF data.t = "none" THEN Raise("ValueError")
    ELSE IF IsStr(data) /\ Strip(data.s) = <<>> THEN Raise("ValueError")
    ELSE IF IsDict(data) /\ DOMAIN data.d = {} THEN Raise("ValueError")
    ELSE Ok(data)

(***************************************************************************)
(* TransformStage.process                                                  *)
(***************************************************************************)
\* TransformStage_process with the comma test of the Output stage (at least
\* two commas) and no "stream" test
TransformStage_process_CommasOnly(data) ==
    IF IsDict(data)
    THEN IF "sensor" \notin DOMAIN data.d \/ "value" \notin DOMAIN data.d
         THEN Raise("ValueError")
         ELSE Ok(data)
    ELSE IF IsStr(data) /\ Count(data.s, ",") >= 2
         THEN Ok(data)
         ELSE Raise("ValueError")

TransformStage_process(data) ==
    IF IsDict(data)
    THEN IF "sensor" \notin DOMAIN data.d \/ "value" \notin DOMAIN data.d
         THEN Raise("ValueError")
         ELSE Ok(data)
    ELSE IF IsStr(data) /\ (Contains(data.s, << "," >>)
                              \/ Contains(Lower(data.s), StreamWord))
         THEN Ok(data)
         ELSE Raise("ValueError")

(***************************************************************************)
(* OutputStage.process                                                     *)
(***************************************************************************)
NormalLow == 0

NormalHigh == 35

OutputMinCommas == 2

\* the unit text of a reading: "C" and the degree form give the degree
\* form, a missing unit defaults to it, any other unit is kept
UnitOf(f) ==
    IF Get(f, "unit") \in {PyStr(<< "C" >>), PyStr(DegreeC)}
    THEN PyStr(DegreeC)
    ELSE IF "unit" \in DOMAIN f THEN f["unit"] ELSE PyStr(DegreeC)

\* a <= b on Python numbers: every comparison with nan is False
PyLe(a, b) == a.t = "int" /\ b.t = "int" /\ a.v <= b.v

PyLt(a, b) == a.t = "int" /\ b.t = "int" /\ a.v < b.v

\* TempRange with the upper comparison written as a strict one
TempRange_StrictUpper(temp) ==
    IF PyLe(PyInt(NormalLow), temp) /\ PyLt(temp, PyInt(NormalHigh))
    THEN NormalRange
    ELSE IF PyLt(temp, PyInt(0)) THEN NegativeRange
    ELSE CaniculeRange

\* the if / elif / else chain that labels a numeric temperature
TempRange(temp) ==
    IF PyLe(PyInt(NormalLow), temp) /\ PyLe(temp, PyInt(NormalHigh))
    THEN NormalRange
    ELSE IF PyLt(temp, PyInt(0)) THEN NegativeRange
    ELSE CaniculeRange

\* NbLines written as len(data.split("\n"))
NbLines_SplitNewline(s) == Count(s, "\n") + 1

\* len(data.splitlines())
NbLines(s) == Len(SplitLines(s))

OutputStage_process(data) ==
    IF IsDict(data)
    THEN LET temp == Get(data.d, "value")
             unit == UnitOf(data.d)
         IN  IF temp.t = "none" THEN Raise("ValueError")
             ELSE IF temp.t \notin {"int", "nan"} THEN Raise("TypeError")
             ELSE Ok(PyStr(Format(temp) \o Format(unit) \o << " ", "(" >>
                             \o TempRange(temp) \o << ")" >>))
    ELSE IF IsStr(data) /\ Count(data.s, ",") >= OutputMinCommas
         THEN Ok(PyStr(NatToStr(NbLines(data.s)) \o ActionsProcessed))
    ELSE IF IsStr(data) /\ Contains(Lower(data.s), StreamWord)
         THEN Ok(PyStr(StreamReadings))
    ELSE Raise("ValueError")

(***************************************************************************)
(* The stages, by class name, and the wiring of the program: each adapter  *)
(* gets the stages Input, Transform, Output appended in this order.        *)
(***************************************************************************)
StageOrder == << "InputStage", "TransformStage", "OutputStage" >>

StageProcess(stage, data) ==
    CASE stage = "InputStage"     -> InputStage_process(data)
      [] stage = "TransformStage" -> TransformStage_process(data)
      [] stage = "OutputStage"    -> OutputStage_process(data)

\* ProcessingPipeline.add_stage
add_stage(p, stage) == [p EXCEPT !.stages = Append(@, stage)]

(***************************************************************************)
(* Adapters: stages[0], stages[1], stages[2] are called in turn, each on   *)
(* the result of the one before.  A run is the trace of the stages called  *)
(* so far, the argument each of them was called with, and the outcome of   *)
(* the last statement.                                                     *)
(***************************************************************************)
\* self.stages[i - 1].process(...) applied to the outcome of the statement
\* before: an exception raised earlier is still propagating, and indexing a
\* stage that was never added raises IndexError
CallStage(stages, i, run) ==
    IF ~run.res.ok THEN run
    ELSE IF Len(stages) < i
         THEN [trace |-> run.trace, args |-> run.args,
               res |-> Raise("IndexError")]
         ELSE [trace |-> Append(run.trace, stages[i]),
               args |-> Append(run.args, run.res.v),
               res |-> StageProcess(stages[i], run.res.v)]

\* RunStages with stages[2] called before stages[1]
RunStages_OutputBeforeTransform(stages, data) ==
    CallStage(stages, 2,
        CallStage(stages, 3,
            CallStage(stages, 1,
                      [trace |-> <<>>, args |-> <<>>, res |-> Ok(data)])))

\* parsed_data, transformed_data, final_output
RunStages(stages, data) ==
    CallStage(stages, 3,
        CallStage(stages, 2,
            CallStage(stages, 1,
                      [trace |-> <<>>, args |-> <<>>, res |-> Ok(data)])))

\* the f-string each adapter returns: its prefix before the Output stage's text
Rendered(prefix, run) ==
    IF run.res.ok
    THEN [trace |-> run.trace, args |-> run.args,
          res |-> Ok(PyStr(prefix \o Format(run.res.v)))]
    ELSE run

JSONAdapter_process(p, data) == Rendered(JSONPrefix, RunStages(p.stages, data))

CSVAdapter_process(p, data) == Rendered(CSVPrefix, RunStages(p.stages, data))

StreamAdapter_process(p, data) ==
    Rendered(StreamPrefix, RunStages(p.stages, data))

\* p.process(data), dispatched on the class of p
AdapterProcess(p, data) ==
    CASE p.cls = "JSONAdapter"   -> JSONAdapter_process(p, data)
      [] p.cls = "CSVAdapter"    -> CSVAdapter_process(p, data)
      [] p.cls = "StreamAdapter" -> StreamAdapter_process(p, data)

(***************************************************************************)
(* NexusManager.process                                                    *)
(***************************************************************************)
AdapterClasses == {"JSONAdapter", "CSVAdapter", "StreamAdapter"}

RouteMinCommas == 2

\* Classify with the "stream" test placed before the comma test
Classify_StreamFirst(data) ==
    IF IsDict(data) THEN "JSONAdapter"
    ELSE IF IsStr(data) /\ Contains(Lower(data.s), StreamWord)
         THEN "StreamAdapter"
    ELSE IF IsStr(data) /\ Count(data.s, ",") >= RouteMinCommas
         THEN "CSVAdapter"
    ELSE "None"

\* Classify with every remaining text sent to the StreamAdapter
Classify_TextDefault(data) ==
    IF IsDict(data) THEN "JSONAdapter"
    ELSE IF IsStr(data) /\ Count(data.s, ",") >= RouteMinCommas
         THEN "CSVAdapter"
    ELSE IF IsStr(data) THEN "StreamAdapter"
    ELSE "None"

\* the classification at the head of process; "None" stands for the
\* else branch, which returns None at once
Classify(data) ==
    IF IsDict(data) THEN "JSONAdapter"
    ELSE IF IsStr(data) /\ Count(data.s, ",") >= RouteMinCommas
         THEN "CSVAdapter"
    ELSE IF IsStr(data) /\ Contains(Lower(data.s), StreamWord)
         THEN "StreamAdapter"
    ELSE "None"

\* FindPipeline without the class-name test: the loop stops at its first pipeline
FindPipeline_First(pipes, target) == IF Len(pipes) > 0 THEN 1 ELSE 0

\* FindPipeline by registration slot: the first pipeline for a dict, the
\* second for a delimited text, the third for a stream text
FindPipeline_BySlot(pipes, target) ==
    IF target = "JSONAdapter" /\ Len(pipes) >= 1 THEN 1
    ELSE IF target = "CSVAdapter" /\ Len(pipes) >= 2 THEN 2
    ELSE IF target = "StreamAdapter" /\ Len(pipes) >= 3 THEN 3
    ELSE 0

\* the pipeline the loop stops at: the first one whose class name is the
\* target, 0 when the loop runs to its end
FindPipeline(pipes, target) ==
    IF \E i \in 1..Len(pipes) : pipes[i].cls = target
    THEN CHOOSE i \in 1..Len(pipes) :
             /\ pipes[i].cls = target
             /\ \A j \in 1..(i - 1) : pipes[j].cls # target
    ELSE 0

\* CountedStats without the is_demo test
CountedStats_Always(st, demo, target) == [st EXCEPT ![target] = @ + 1]

\* the counters after a call whose adapter returned
CountedStats(st, demo, target) ==
    IF ~demo THEN [st EXCEPT ![target] = @ + 1] ELSE st

\* RecoveredStats with the increment made before the adapter is called
RecoveredStats_Counted(st, demo, target) == [st EXCEPT ![target] = @ + 1]

\* RecoveredStats with the adapter's counter cleared by the except clause
RecoveredStats_Reset(st, demo, target) == [st EXCEPT ![target] = 0]

\* the counters after a call whose adapter raised ValueError
RecoveredStats(st, demo, target) == st

\* One call of process is recorded as
\*   data     the argument
\*   target   the class name the argument was classified to, or "None"
\*   ran      the indices of the registered pipelines whose process was called
\*   trace    the stages called, in order
\*   args     the argument each of these stages was called with
\*   outcome  "ok"           the adapter's text is returned
\*            "recovered"    ValueError caught, the sentinel is returned
\*            "unclassified" None returned by the else branch
\*            "unknown"      None returned after the loop
\*            "raised"       an exception leaves process
\*   result   the value returned, or the exception that leaves process
\*   before, after   the counters
\*   demo     is_demo during the call
CallRecord(data, target, ran, run, outcome, result, before, after, demo) ==
    [data |-> data, target |-> target, ran |-> ran, trace |-> run.trace,
     args |-> run.args, outcome |-> outcome, result |-> result,
     before |-> before, after |-> after, demo |-> demo]

\* no adapter was called
NoRun == [trace |-> <<>>, args |-> <<>>]

\* the try block around p.process(data) and its except clause; the prints
\* of the block write values json.dumps and str accept (None, int, float,
\* str), so they add no outcome
TryPipeline(st, demo, data, target, i, run) ==
    IF run.res.ok
    THEN CallRecord(data, target, << i >>, run, "ok", run.res,
                    st, CountedStats(st, demo, target), demo)
    ELSE IF run.res.e = "ValueError"
    THEN CallRecord(data, target, << i >>, run, "recovered",
                    Ok(PyStr(RecoverySuccessful)),
                    st, RecoveredStats(st, demo, target), demo)
    ELSE CallRecord(data, target, << i >>, run, "raised", run.res,
                    st, st, demo)

\* the loop over self.pipelines, stopped at pipeline i (0: ran to its end)
Dispatch(pipes, st, demo, data, target, i) ==
    IF i = 0
    THEN CallRecord(data, target, <<>>, NoRun, "unknown", Ok(PyNone),
                    st, st, demo)
    ELSE TryPipeline(st, demo, data, target, i, AdapterProcess(pipes[i], data))

Route(pipes, st, demo, data, target) ==
    IF target = "None"
    THEN CallRecord(data, target, <<>>, NoRun, "unclassified", Ok(PyNone),
                    st, st, demo)
    ELSE Dispatch(pipes, st, demo, data, target, FindPipeline(pipes, target))

ManagerProcess(pipes, st, demo, data) ==
    Route(pipes, st, demo, data, Classify(data))

(***************************************************************************)
(* NexusManager.pipeline_chaining_demo: the three chained calls.  A call   *)
(* that raises ends the demo there.                                        *)
(***************************************************************************)
\* ChainCsvInput with the comma before the result left out
ChainCsvInput_NoComma(result_a) ==
    PyStr(SubSeq(ChainLogPrefix, 1, Len(ChainLogPrefix) - 1) \o Format(result_a))

\* f"chain_log,status,{result_a}"
ChainCsvInput(result_a) == PyStr(ChainLogPrefix \o Format(result_a))

\* f"Final stream update: {result_b}"
ChainStreamInput(result_b) == PyStr(FinalStreamPrefix \o Format(result_b))

\* the third call, after the first two returned
ChainThird(pipes, a, b) ==
    << a, b, ManagerProcess(pipes, b.after, TRUE, ChainStreamInput(b.result.v)) >>

\* the rest of the chain, given the second call
ChainAfterSecond(pipes, a, b) ==
    IF ~b.result.ok THEN << a, b >> ELSE ChainThird(pipes, a, b)

\* the rest of the chain, given the first call
ChainAfterFirst(pipes, a) ==
    IF ~a.result.ok THEN << a >>
    ELSE ChainAfterSecond(pipes, a,
             ManagerProcess(pipes, a.after, TRUE, ChainCsvInput(a.result.v)))

ChainCalls(pipes, st, start_data) ==
    ChainAfterFirst(pipes, ManagerProcess(pipes, st, TRUE, start_data))

(***************************************************************************)
(* The arguments the model passes in.                                      *)
(***************************************************************************)
\* the pieces the texts below are made of
Row == << "u", ",", "a", ",", "t" >>

Field == << "x", "," >>

Keyword == << "S", "t", "r", "E", "A", "M" >>

NL == << "\n" >>

CR == << "\r" >>

\* texts of every classification: without and with commas, without and
\* with the keyword, with line boundaries at the start, inside and at the end
Texts ==
    { <<>>, NL, << " " >>, Field, << "l", "o", "g" >>,
      Keyword, Field \o Keyword, NL \o Keyword \o << " " >>,
      Row, Row \o Keyword, Field \o Field, Row \o NL, Row \o CR,
      NL \o Row, Row \o NL \o Row, Row \o CR \o Field,
      Row \o NL \o NL \o Field,
      Row \o CR \o NL \o Field, Field \o NL \o Field \o NL }

\* the values of a reading's "value": None, numbers on both sides of each
\* boundary, nan, and a text
ReadingValues ==
    { PyNone, PyInt(-1), PyInt(0), PyInt(35), PyInt(36), PyNan,
      PyStr(<< "h", "o", "t" >>) }

ReadingUnits == { PyStr(<< "C" >>), PyStr(<< "F" >>) }

SensorName == PyStr(<< "t", "e", "m", "p" >>)

\* dicts with "sensor" and "value", without and with "unit"
Readings ==
    { [k \in {"sensor", "value"} |->
          IF k = "sensor" THEN SensorName ELSE v] : v \in ReadingValues }
    \cup
    { [k \in {"sensor", "value", "unit"} |->
          IF k = "sensor" THEN SensorName ELSE IF k = "value" THEN v ELSE u]
        : v \in ReadingValues, u \in ReadingUnits }

\* the empty dict and dicts that lack "sensor" or "value"
Malformed ==
    { [k \in {} |-> PyNone],
      [k \in {"sensor"} |-> SensorName],
      [k \in {"value"} |-> PyInt(0)],
      [k \in {"unit"} |-> PyStr(<< "C" >>)] }

Dicts == Readings \cup Malformed

Inputs ==
    { PyNone, PyInt(42) } \cup { PyStr(s) : s \in Texts }
        \cup { PyDict(f) : f \in Dicts }

NumStages == 3

\* an adapter of class cls with the first k stages of the program added
RECURSIVE Wired(_, _)
Wired(cls, k) ==
    IF k = 0 THEN [cls |-> cls, stages |-> <<>>]
    ELSE add_stage(Wired(cls, k - 1), StageOrder[k])

(***************************************************************************)
(* The state machine.  calls holds the process calls of the operation that *)
(* has just returned (or raised: raised = TRUE), until the caller moves on.*)
(***************************************************************************)
\* NexusManager.__init__
Init ==
    /\ pipelines = <<>>
    /\ stats = [k \in AdapterClasses |-> 0]
    /\ is_demo = FALSE
    /\ calls = <<>>
    /\ op = "idle"
    /\ raised = FALSE

\* the adapters handed to add_pipeline: of each class, one with the three
\* stages added and one whose wiring stopped a stage short
Adapters ==
    { Wired(cls, k) : cls \in AdapterClasses, k \in (NumStages - 1)..NumStages }

\* NexusManager.add_pipeline, on an adapter wired beforehand
AddPipeline ==
    /\ op = "idle"
    /\ Len(pipelines) < MaxPipelines
    /\ \E p \in Adapters : pipelines' = Append(pipelines, p)
    /\ UNCHANGED <<stats, is_demo, calls, op, raised>>

\* NexusManager.process, called from outside the demo
Process ==
    /\ op = "idle"
    /\ \E data \in Inputs :
         \E c \in { ManagerProcess(pipelines, stats, is_demo, data) } :
              /\ \A k \in AdapterClasses : c.after[k] <= MaxCount
              /\ calls' = << c >>
              /\ stats' = c.after
              /\ raised' = ~c.result.ok
    /\ op' = "process"
    /\ UNCHANGED <<pipelines, is_demo>>

\* NexusManager.pipeline_chaining_demo
PipelineChainingDemo ==
    /\ op = "idle"
    /\ op' = "demo"
    /\ UNCHANGED pipelines
    /\ IF pipelines = <<>>
       THEN /\ calls' = <<>>
            /\ raised' = FALSE
            /\ UNCHANGED <<stats, is_demo>>
       ELSE \E start_data \in Inputs :
              \E cs \in { ChainCalls(pipelines, stats, start_data) } :
                  /\ calls' = cs
                  /\ stats' = cs[Len(cs)].after
                  /\ raised' = ~cs[Len(cs)].result.ok
                  /\ is_demo' = ~cs[Len(cs)].result.ok

\* the caller moves on: the value returned (or the exception) is dropped
CallerContinues ==
    /\ op # "idle"
    /\ op' = "idle"
    /\ calls' = <<>>
    /\ raised' = FALSE
    /\ UNCHANGED <<pipelines, stats, is_demo>>

Next == AddPipeline \/ Process \/ PipelineChainingDemo \/ CallerContinues

Spec == Init /\ [][Next]_vars

(***************************************************************************)
(* The adapters called on their own: process of an adapter is public, and  *)
(* a caller that holds an adapter can hand it any value, also one the      *)
(* Manager would not classify.  calls then holds the one adapter call.     *)
(***************************************************************************)
\* what is kept of p.process(data): the adapter, the argument, the stages
\* called with the argument of each, and the value returned or the
\* exception raised
AdapterCall(p, data, run) ==
    [adapter |-> p, data |-> data, trace |-> run.trace, args |-> run.args,
     result |-> run.res]

\* JSONAdapter.process, CSVAdapter.process or StreamAdapter.process, called
\* directly
AdapterProcessCall ==
    /\ op = "idle"
    /\ \E p \in Adapters :
         \E data \in Inputs :
            \E run \in { AdapterProcess(p, data) } :
                /\ calls' = << AdapterCall(p, data, run) >>
                /\ raised' = ~run.res.ok
    /\ op' = "adapter"
    /\ UNCHANGED <<pipelines, stats, is_demo>>

AdapterNext == AdapterProcessCall \/ CallerContinues

AdapterSpec == Init /\ [][AdapterNext]_vars

(***************************************************************************)
(* Vocabulary of the properties: the kinds of section 4.1 stated on the    *)
(* characters of the text, the adapter serving a kind, and the calls of    *)
(* the operation that has just ended.                                      *)
(***************************************************************************)
CallIdx == 1..Len(calls)

Commas(s) == {i \in 1..Len(s) : s[i] = ","}

TwoCommas(s) == Cardinality(Commas(s)) >= 2

OneComma(s) == Cardinality(Commas(s)) = 1

\* some six consecutive characters read s, t, r, e, a, m in either case
MentionsStream(s) ==
    \E i \in 1..(Len(s) - 5) :
        /\ s[i] \in {"s", "S"} /\ s[i + 1] \in {"t", "T"}
        /\ s[i + 2] \in {"r", "R"} /\ s[i + 3] \in {"e", "E"}
        /\ s[i + 4] \in {"a", "A"} /\ s[i + 5] \in {"m", "M"}

KindOf(data) ==
    IF data.t = "dict" THEN "JSONAdapter"
    ELSE IF data.t = "str" /\ TwoCommas(data.s) THEN "CSVAdapter"
    ELSE IF data.t = "str" /\ MentionsStream(data.s) THEN "StreamAdapter"
    ELSE "None"

PrefixOf(kind) ==
    CASE kind = "JSONAdapter"   -> JSONPrefix
      [] kind = "CSVAdapter"    -> CSVPrefix
      [] kind = "StreamAdapter" -> StreamPrefix

StartsWith(s, prefix) ==
    Len(s) >= Len(prefix) /\ SubSeq(s, 1, Len(prefix)) = prefix

Registered(kind) == \E j \in 1..Len(pipelines) : pipelines[j].cls = kind

\* the first registered adapter of the kind has its three stages
Served(kind) ==
    \E j \in 1..Len(pipelines) :
        /\ pipelines[j].cls = kind
        /\ \A h \in 1..(j - 1) : pipelines[h].cls # kind
        /\ pipelines[j].stages = StageOrder

Sentinel == Ok(PyStr(RecoverySuccessful))

Incremented(c) == c.after = [c.before EXCEPT ![c.target] = @ + 1]

\* the counters of the Manager are those the recorded calls leave, in turn
CountersFollowCalls ==
    /\ calls # <<>> => stats = calls[Len(calls)].after
    /\ \A i \in CallIdx : i > 1 => calls[i].before = calls[i - 1].after

C2_NothingEscapes ==
    \A i \in CallIdx :
        /\ calls[i].outcome # "raised"
        /\ calls[i].result.ok
        /\ calls[i].result.v.t \in {"str", "none"}

(***************************************************************************)
(* C3: when a stage of the dispatched adapter raises ValueError, process   *)
(* returns exactly the sentinel "Recovery successful", nothing propagates, *)
(* no second adapter is tried and no counter changes; the record with      *)
(* "sensor" but no "value" is rejected at Transform.                       *)
(***************************************************************************)
\* the dispatched adapter's stages, replayed on the argument, end in ValueError
StageRejects(c, kind) ==
    /\ kind # "None"
    /\ \E j \in 1..Len(pipelines) :
          /\ pipelines[j].cls = kind
          /\ \A h \in 1..(j - 1) : pipelines[h].cls # kind
          /\ \E n \in 1..Len(pipelines[j].stages) :
                /\ \A m \in 1..(n - 1) :
                      StageProcess(pipelines[j].stages[m], c.data).ok
                /\ StageProcess(pipelines[j].stages[n], c.data)
                      = Raise("ValueError")

SensorOnly == PyDict([k \in {"sensor"} |-> SensorName])

C3_ValueErrorRecovered ==
    \A i \in CallIdx :
        /\ StageRejects(calls[i], KindOf(calls[i].data)) =>
              /\ calls[i].outcome = "recovered"
              /\ calls[i].result = Sentinel
              /\ Len(calls[i].ran) = 1
              /\ calls[i].after = calls[i].before
              /\ (i = Len(calls) => stats = calls[i].before)
        /\ (calls[i].data = SensorOnly /\ Served("JSONAdapter")) =>
              /\ calls[i].trace = << "InputStage", "TransformStage" >>
              /\ calls[i].result = Sentinel

C3_Witness ==
    /\ op = "process"
    /\ Len(pipelines) = 2
    /\ pipelines[1].cls = "JSONAdapter" /\ pipelines[2].cls = "JSONAdapter"
    /\ calls[1].data = SensorOnly
    /\ calls[1].trace = << "InputStage", "TransformStage" >>
    /\ calls[1].result = Sentinel
    /\ calls[1].ran = << 1 >>

(***************************************************************************)
(* C4: classification is by precedence dict, then text with at least two   *)
(* commas, then text containing "stream" in any case, else Unclassified;   *)
(* a text with two commas and "stream" goes to the CSVAdapter, never to    *)
(* the StreamAdapter, and a text with one comma and "stream" goes to the   *)
(* StreamAdapter.                                                          *)
(***************************************************************************)
C4_ClassificationPrecedence ==
    \A i \in CallIdx :
        LET c == calls[i]
        IN  /\ \A kind \in { KindOf(c.data) } :
                  /\ c.target = kind
                  /\ c.ran # <<>> => pipelines[c.ran[1]].cls = kind
                  /\ c.outcome = "ok" =>
                        StartsWith(c.result.v.s, PrefixOf(kind))
            /\ (c.data.t = "str" /\ TwoCommas(c.data.s)
                  /\ MentionsStream(c.data.s)) =>
                  /\ c.target = "CSVAdapter"
                  /\ c.ran # <<>> => pipelines[c.ran[1]].cls = "CSVAdapter"
            /\ (c.data.t = "str" /\ OneComma(c.data.s)
                  /\ MentionsStream(c.data.s)) =>
                  /\ c.target = "StreamAdapter"
                  /\ c.ran # <<>> => pipelines[c.ran[1]].cls = "StreamAdapter"

\* a text with two commas and the keyword, served by the CSVAdapter while a
\* StreamAdapter is registered before it
C4_Witness ==
    /\ op = "process"
    /\ calls[1].data = PyStr(Row \o Keyword)
    /\ Len(pipelines) = 2
    /\ pipelines[1] = Wired("StreamAdapter", NumStages)
    /\ calls[1].ran = << 2 >>
    /\ calls[1].outcome = "ok"
    /\ StartsWith(calls[1].result.v.s, CSVPrefix)

(***************************************************************************)
(* C5: for an Unclassified input (no dict, no text with two commas or      *)
(* "stream") process returns None, calls no adapter and no stage, raises   *)
(* nothing and changes no counter, whatever adapters are registered.       *)
(***************************************************************************)
C5_UnclassifiedIsNoOp ==
    \A i \in CallIdx :
        KindOf(calls[i].data) = "None" =>
            /\ calls[i].result = Ok(PyNone)
            /\ calls[i].ran = <<>>
            /\ calls[i].trace = <<>>
            /\ calls[i].after = calls[i].before
            /\ (i = Len(calls) => stats = calls[i].before)

\* the bare number 42 given to a Manager with two adapters
C5_Witness ==
    /\ op = "process"
    /\ calls[1].data = PyInt(42)
    /\ Len(pipelines) >= 2
    /\ calls[1].result = Ok(PyNone)
    /\ ~raised

(***************************************************************************)
(* C6: a record with "sensor" and a numeric "value" comes back as          *)
(* "Processed temperature reading: <value><unit> (<range>)", the range     *)
(* being "Negative range" for value < 0, "Normal range" for                *)
(* 0 <= value <= 35 and "Canicule range" for value > 35; the unit "C" is   *)
(* rendered as the degree form and a missing unit defaults to it.          *)
(***************************************************************************)
RangeLabels == { NegativeRange, NormalRange, CaniculeRange }

Numeric(v) == v.t \in {"int", "nan"}

LabelFits(v, label) ==
    /\ (v.t = "int" /\ v.v < 0) => label = NegativeRange
    /\ (v.t = "int" /\ 0 <= v.v /\ v.v <= 35) => label = NormalRange
    /\ (v.t = "int" /\ v.v > 35) => label = CaniculeRange

UnitText(f) ==
    IF "unit" \notin DOMAIN f \/ f["unit"] = PyStr(<< "C" >>)
    THEN << "deg", "C" >>
    ELSE f["unit"].s

IsReading(data) ==
    /\ data.t = "dict"
    /\ {"sensor", "value"} \subseteq DOMAIN data.d
    /\ Numeric(data.d["value"])

C6_ReadingRendered ==
    \A i \in CallIdx :
        (IsReading(calls[i].data) /\ Served("JSONAdapter")) =>
            \E label \in RangeLabels :
                /\ LabelFits(calls[i].data.d["value"], label)
                /\ calls[i].result =
                      Ok(PyStr(JSONPrefix
                                 \o Format(calls[i].data.d["value"])
                                 \o UnitText(calls[i].data.d)
                                 \o << " ", "(" >> \o label \o << ")" >>))

Text_Reading35 ==
    << "P", "r", "o", "c", "e", "s", "s", "e", "d", " ", "t", "e",
       "m", "p", "e", "r", "a", "t", "u", "r", "e", " ", "r", "e",
       "a", "d", "i", "n", "g", ":", " ", "3", "5", "deg", "C", " ",
       "(", "N", "o", "r", "m", "a", "l", " ", "r", "a", "n", "g",
       "e", ")" >>

\* the reading 35 C, on the upper boundary of the normal range
C6_Witness ==
    /\ op = "process"
    /\ calls[1].data =
          PyDict([k \in {"sensor", "value", "unit"} |->
                    IF k = "sensor" THEN SensorName
                    ELSE IF k = "value" THEN PyInt(35) ELSE PyStr(<< "C" >>)])
    /\ calls[1].result = Ok(PyStr(Text_Reading35))

(***************************************************************************)
(* C7 as stated: a text with at least two commas comes back as             *)
(* "User activity logged: <n> actions processed" with n the number of      *)
(* segments obtained by splitting the text at each newline character.      *)
(***************************************************************************)
IsDelimited(data) == data.t = "str" /\ TwoCommas(data.s)

NewlineSegments(s) == Cardinality({i \in 1..Len(s) : s[i] = "\n"}) + 1

C7_CountsNewlineSegments ==
    \A i \in CallIdx :
        (IsDelimited(calls[i].data) /\ Served("CSVAdapter")) =>
            calls[i].result =
                Ok(PyStr(CSVPrefix \o NatToStr(NewlineSegments(calls[i].data.s))
                           \o ActionsProcessed))

(***************************************************************************)
(* C7 as amended: n is the number of lines of the text: the text is cut at *)
(* every line boundary (a newline, a carriage return, or the pair carriage *)
(* return + newline taken as one), and a boundary that ends the text does  *)
(* not open a further, empty line.                                         *)
(***************************************************************************)
\* the positions that end a line: a line break character, except the
\* newline of a carriage return + newline pair
LineEnds(s) ==
    {i \in 1..Len(s) :
        /\ s[i] \in {"\n", "\r"}
        /\ ~(s[i] = "\n" /\ i > 1 /\ s[i - 1] = "\r")}

LineCount(s) ==
    Cardinality(LineEnds(s))
        + (IF s # <<>> /\ s[Len(s)] \notin {"\n", "\r"} THEN 1 ELSE 0)

C7_CountsLines ==
    \A i \in CallIdx :
        (IsDelimited(calls[i].data) /\ Served("CSVAdapter")) =>
            calls[i].result =
                Ok(PyStr(CSVPrefix \o NatToStr(LineCount(calls[i].data.s))
                           \o ActionsProcessed))

Text_OneAction ==
    << "U", "s", "e", "r", " ", "a", "c", "t", "i", "v", "i", "t",
       "y", " ", "l", "o", "g", "g", "e", "d", ":", " ", "1", " ",
       "a", "c", "t", "i", "o", "n", "s", " ", "p", "r", "o", "c",
       "e", "s", "s", "e", "d" >>

\* one row followed by a newline is one action
C7_Witness ==
    /\ op = "process"
    /\ calls[1].data = PyStr(Row \o NL)
    /\ calls[1].result = Ok(PyStr(Text_OneAction))

(***************************************************************************)
(* C8: in pipeline_chaining_demo every value a call returns (a rendered    *)
(* string, the sentinel or None), embedded as "chain_log,status,<result>"  *)
(* and then "Final stream update: <result>", classifies again: the second  *)
(* call is dispatched as Delimited, the third as FreeText, and the chain   *)
(* never stops at Unclassified.                                            *)
(***************************************************************************)
Text_ChainOfNone ==
    << "c", "h", "a", "i", "n", "_", "l", "o", "g", ",", "s", "t",
       "a", "t", "u", "s", ",", "N", "o", "n", "e" >>

Text_FinalOfOneAction ==
    << "F", "i", "n", "a", "l", " ", "s", "t", "r", "e", "a", "m",
       " ", "u", "p", "d", "a", "t", "e", ":", " ", "U", "s", "e",
       "r", " ", "a", "c", "t", "i", "v", "i", "t", "y", " ", "l",
       "o", "g", "g", "e", "d", ":", " ", "1", " ", "a", "c", "t",
       "i", "o", "n", "s", " ", "p", "r", "o", "c", "e", "s", "s",
       "e", "d" >>

C8_ChainReclassifies ==
    op = "demo" =>
        /\ (Len(calls) >= 1 /\ calls[1].result.ok) =>
              /\ Len(calls) >= 2
              /\ calls[2].data.t = "str"
              /\ calls[2].data.s =
                    ChainLogPrefix \o Format(calls[1].result.v)
              /\ calls[2].target = "CSVAdapter"
              /\ calls[2].ran # <<>> =>
                    pipelines[calls[2].ran[1]].cls = "CSVAdapter"
        /\ (Len(calls) >= 2 /\ calls[2].result.ok) =>
              /\ Len(calls) = 3
              /\ calls[3].data.t = "str"
              /\ calls[3].data.s =
                    FinalStreamPrefix \o Format(calls[2].result.v)
              /\ calls[3].target = "StreamAdapter"
              /\ calls[3].ran # <<>> =>
                    pipelines[calls[3].ran[1]].cls = "StreamAdapter"
        /\ \A i \in CallIdx : i > 1 => calls[i].outcome # "unclassified"

\* a start record no adapter serves: None is chained into the CSVAdapter,
\* and its text into the StreamAdapter
C8_Witness ==
    /\ op = "demo"
    /\ Len(calls) = 3
    /\ calls[1].result = Ok(PyNone)
    /\ calls[2].data = PyStr(Text_ChainOfNone)
    /\ calls[2].outcome = "ok"
    /\ calls[3].data = PyStr(Text_FinalOfOneAction)
    /\ calls[3].outcome = "ok"

(***************************************************************************)
(* C9: when no adapter of the input's kind is registered, process returns  *)
(* None (not the sentinel), runs no stage of an adapter of another kind    *)
(* and increments no counter.                                              *)
(***************************************************************************)
C9_UnroutedReturnsNone ==
    \A i \in CallIdx :
        (\E kind \in AdapterClasses :
             kind = KindOf(calls[i].data) /\ ~Registered(kind))
            =>
            /\ calls[i].outcome = "unknown"
            /\ calls[i].result = Ok(PyNone)
            /\ calls[i].result # Sentinel
            /\ calls[i].ran = <<>>
            /\ calls[i].trace = <<>>
            /\ calls[i].after = calls[i].before
            /\ (i = Len(calls) => stats = calls[i].before)

\* a delimited text given to a Manager that holds a wired JSONAdapter only
C9_Witness ==
    /\ op = "process"
    /\ Len(pipelines) = 1
    /\ pipelines[1] = [cls |-> "JSONAdapter", stages |-> StageOrder]
    /\ calls[1].data = PyStr(Row)
    /\ calls[1].result = Ok(PyNone)

(***************************************************************************)
(* C10: an adapter calls its stages in the order Input, Transform, Output, *)
(* each at most once per call; when Input fails neither Transform nor      *)
(* Output runs, and when Transform fails Output does not run.              *)
(***************************************************************************)
IsPrefix(t, u) == Len(t) <= Len(u) /\ t = SubSeq(u, 1, Len(t))

C10_StagesInOrder ==
    \A i \in CallIdx :
        LET c == calls[i]
        IN  /\ IsPrefix(c.trace, StageOrder)
            /\ c.ran = <<>> => c.trace = <<>>
            /\ (c.trace # <<>> /\ ~InputStage_process(c.data).ok) =>
                  c.trace = << "InputStage" >>
            /\ (Len(c.trace) >= 2 /\ InputStage_process(c.data).ok
                  /\ ~TransformStage_process(InputStage_process(c.data).v).ok)
                  => c.trace = << "InputStage", "TransformStage" >>
            /\ c.outcome = "ok" => c.trace = StageOrder

\* a demo whose start record lacks "sensor": Transform fails and Output is
\* not called; the chained text then passes the three stages of the CSVAdapter
C10_Witness ==
    /\ op = "demo"
    /\ Len(calls) = 3
    /\ calls[1].data = PyDict([k \in {"value"} |-> PyInt(0)])
    /\ calls[1].trace = << "InputStage", "TransformStage" >>
    /\ calls[2].trace = StageOrder
    /\ calls[3].ran = <<>>

(***************************************************************************)
(* C11: a record with "sensor" and "value" whose "value" is not numeric is *)
(* rejected by the Transform stage: the Output stage is not called on it   *)
(* and process returns "Recovery successful" with the counters unchanged.  *)
(***************************************************************************)
NonNumericReading(data) ==
    /\ data.t = "dict"
    /\ {"sensor", "value"} \subseteq DOMAIN data.d
    /\ ~Numeric(data.d["value"])

C11_NonNumericRejectedAtTransform ==
    \A i \in CallIdx :
        (NonNumericReading(calls[i].data) /\ Served("JSONAdapter")) =>
            /\ calls[i].trace = << "InputStage", "TransformStage" >>
            /\ calls[i].outcome = "recovered"
            /\ calls[i].result = Sentinel
            /\ calls[i].after = calls[i].before

(***************************************************************************)
(* C12 as stated: for a text, the Input stage fails with ValueError when   *)
(* the text is empty after trimming surrounding whitespace, and otherwise  *)
(* returns the trimmed text, which is what the later stages receive.       *)
(***************************************************************************)
Blank(s) == \A i \in 1..Len(s) : s[i] \in {" ", "\t", "\n", "\r"}

\* the first and the last character of s that is not whitespace
FirstInk(s) ==
    CHOOSE i \in 1..Len(s) :
        ~Blank(<< s[i] >>) /\ \A j \in 1..(i - 1) : Blank(<< s[j] >>)

LastInk(s) ==
    CHOOSE i \in 1..Len(s) :
        ~Blank(<< s[i] >>) /\ \A j \in (i + 1)..Len(s) : Blank(<< s[j] >>)

Trimmed(s) == IF Blank(s) THEN <<>> ELSE SubSeq(s, FirstInk(s), LastInk(s))

\* the calls of an adapter on a text
TextCalls == {i \in CallIdx : calls[i].data.t = "str"}

BlankFailsAtInput ==
    \A i \in TextCalls :
        Blank(calls[i].data.s) =>
            /\ calls[i].trace = << "InputStage" >>
            /\ calls[i].result = Raise("ValueError")

C12_LaterStagesGetTrimmedText ==
    /\ BlankFailsAtInput
    /\ \A i \in TextCalls :
          ~Blank(calls[i].data.s) =>
              /\ Len(calls[i].args) >= 2
              /\ \A k \in 2..Len(calls[i].args) :
                    calls[i].args[k] = PyStr(Trimmed(calls[i].data.s))

(***************************************************************************)
(* C12 as amended: for a text, the Input stage fails with ValueError when  *)
(* the text is empty after trimming surrounding whitespace, and otherwise  *)
(* returns the text as it was given, surrounding whitespace included,      *)
(* which is what the later stages receive.                                 *)
(***************************************************************************)
C12_LaterStagesGetGivenText ==
    /\ BlankFailsAtInput
    /\ \A i \in TextCalls :
          ~Blank(calls[i].data.s) =>
              /\ Len(calls[i].args) >= 2
              /\ \A k \in 2..Len(calls[i].args) :
                    calls[i].args[k] = calls[i].data

\* a row behind a newline passes the three stages of the CSVAdapter with
\* its newline: two lines are counted
C12_Witness ==
    /\ op = "adapter"
    /\ calls[1].adapter = Wired("CSVAdapter", NumStages)
    /\ calls[1].data = PyStr(NL \o Row)
    /\ calls[1].trace = StageOrder
    /\ calls[1].args = << PyStr(NL \o Row), PyStr(NL \o Row), PyStr(NL \o Row) >>
    /\ calls[1].result.ok
    /\ calls[1].result.v # PyStr(Text_OneAction)

(***************************************************************************)
(* C13 as stated: for every list of registered adapters and every input,   *)
(* the value process returns and the counter changes it makes are the same *)
(* under every permutation of the order in which the adapters were         *)
(* registered with add_pipeline.                                           *)
(***************************************************************************)
\* the registered adapters in the order f: position j holds pipelines[f[j]]
Reordered(f) == [j \in 1..Len(pipelines) |-> pipelines[f[j]]]

\* the orders other than the one the adapters were registered in
Orders ==
    Permutations(1..Len(pipelines)) \ { [j \in 1..Len(pipelines) |-> j] }

\* the call d returns (or raises) what the call c did, and counts as c did
SameOutcome(c, d) == d.result = c.result /\ d.after = c.after

\* the call c made again, with the adapters registered in the order f
Replayed(c, f) == ManagerProcess(Reordered(f), c.before, c.demo, c.data)

\* the calls of process a caller of the Manager has made
CallerCalls == IF op = "process" THEN CallIdx ELSE {}

KeepsClassOrder(f) ==
    \A i, j \in 1..Len(pipelines) :
        (i < j /\ pipelines[f[i]].cls = pipelines[f[j]].cls) => f[i] < f[j]

AtLeast(st, earlier) == \A k \in AdapterClasses : st[k] >= earlier[k]

C14_CountersNeverDecrease ==
    [][ /\ AtLeast(stats', stats)
        /\ \A i \in 1..Len(calls') :
              /\ AtLeast(calls'[i].after, calls'[i].before)
              /\ AtLeast(calls'[i].before, stats)
              /\ AtLeast(stats', calls'[i].after) ]_vars

\* a recovered call made after a counted one: the count of 1 is kept
C14_Witness ==
    /\ op = "process"
    /\ calls[1].outcome = "recovered"
    /\ calls[1].target = "JSONAdapter"
    /\ calls[1].before["JSONAdapter"] = 1
    /\ stats["JSONAdapter"] = 1

(***************************************************************************)
(* C15: served by an adapter that holds the three stages wired as in the   *)
(* program, every text that classifies as Delimited (at least two commas)  *)
(* or FreeText (contains "stream") passes the three stages and comes back  *)
(* as the adapter's text: process never enters recovery for a text, and    *)
(* only a structured record makes it return "Recovery successful".         *)
(***************************************************************************)
TextKinds == {"CSVAdapter", "StreamAdapter"}

C15_TextNeverRecovers ==
    \A i \in CallIdx :
        /\ \A kind \in { KindOf(calls[i].data) } :
              (calls[i].data.t = "str" /\ kind \in TextKinds /\ Served(kind))
                  =>
                  /\ calls[i].trace = StageOrder
                  /\ calls[i].outcome = "ok"
                  /\ StartsWith(calls[i].result.v.s, PrefixOf(kind))
        /\ calls[i].data.t = "str" => calls[i].outcome # "recovered"
        /\ calls[i].result = Sentinel => calls[i].data.t = "dict"

\* a chaining demo on the record without "value": the record is recovered,
\* and the delimited text made from the sentinel passes the three stages
C15_Witness ==
    /\ op = "demo"
    /\ Len(calls) = 3
    /\ calls[1].data = SensorOnly
    /\ calls[1].result = Sentinel
    /\ calls[2].data.t = "str"
    /\ calls[2].target = "CSVAdapter"
    /\ calls[2].trace = StageOrder
    /\ calls[2].outcome = "ok"

(***************************************************************************)
(* C16: is_demo is False in every state in which no pipeline_chaining_demo *)
(* is executing: whatever start record the demo was given and however it   *)
(* ended, is_demo is False once it is over, and a process call made        *)
(* afterwards that returns an adapter's text increments the adapter's      *)
(* counter.                                                                *)
(***************************************************************************)
C16_DemoFlagCleared ==
    /\ ~is_demo
    /\ op = "process" =>
          \A i \in CallIdx :
              calls[i].outcome = "ok" => Incremented(calls[i])

====
